---- MODULE Spec2Model ----
(***************************************************************************)
(* The poster-generation request orchestrator of kids-poster:              *)
(* app/api/generate/route.ts, handler POST.  The file holds an earlier,    *)
(* SDK-based revision of the route (lines 1-109) followed by the current,  *)
(* fetch-based one (lines 111-231); the current one is modelled.           *)
(*                                                                         *)
(* One handler invocation is a sequence of steps, one per synchronous      *)
(* segment between two awaits.  The image API, the storage service and     *)
(* the clock are the environment.  The handler keeps nothing between two   *)
(* invocations, and never reads the bucket it writes to.                   *)
(*                                                                         *)
(* Text is modelled as a sequence of fragments (a string is the            *)
(* concatenation of its fragments); the title typed by the user is         *)
(* modelled character by character so that trim() is computed.             *)
(***************************************************************************)
EXTENDS Integers, Sequences, FiniteSets, TLC

\* ---------------------------------------------------------------- bounds
MaxTitleLen == 2

\* ------------------------------------------------------ program constants
FastTimeoutMs == 9000
SlowTimeoutMs == 45000
\* the instants at which a timer of this program can expire
Deadlines == {FastTimeoutMs, SlowTimeoutMs}

SquareSize == "1024x1024"
PortraitSize == "1024x1536"

DefaultStyle == "Cut-out modern poster"
DefaultAccent == "#E63946"

\* form.get(name) of a field that is not in the form
Null == "<null>"

\* ----------------------------------------------------------- input sets
TitleChars == {" ", "a"}

RECURSIVE SeqsUpTo(_, _)
SeqsUpTo(S, n) ==
  IF n = 0 THEN {<<>>}
  ELSE LET shorter == SeqsUpTo(S, n - 1)
       IN shorter \cup {Append(s, c) : s \in {t \in shorter : Len(t) = n - 1}, c \in S}

Titles == SeqsUpTo(TitleChars, MaxTitleLen)

Envs == [OPENAI_API_KEY : BOOLEAN, supabaseUrl : BOOLEAN,
         supabaseServiceRoleKey : BOOLEAN, VERCEL : BOOLEAN]

FastParams == {Null, "1", "0"}

TitleFields == {[given |-> FALSE, text |-> <<>>]} \cup
               {[given |-> TRUE, text |-> t] : t \in Titles}

\* image: the form has a non-empty `image` field; blob: that field is a file
\* part (a Blob), not a text value
Forms == {f \in [image : BOOLEAN,
                 blob : BOOLEAN,
                 style : {Null, "Bauhaus"},
                 paletteAccent : {Null, "#00FF00"},
                 allowShapes : {Null, "true", "false"},
                 aiText : {Null, "true", "false"},
                 titleText : TitleFields] : f.blob => f.image}

\* ------------------------------------------------- configuration checks
\* line 132: !process.env.OPENAI_API_KEY
MissingOpenAIKey(e) == ~e.OPENAI_API_KEY

MissingSupabaseUrlOnly(e) == ~e.supabaseUrl

\* line 135: !supabaseUrl || !supabaseServiceRoleKey
MissingSupabase(e) == ~e.supabaseUrl \/ ~e.supabaseServiceRoleKey

\* ---------------------------------------------------- profile selection
\* line 140: url.searchParams.get("fast") === "1"
FastOf(q) == q = "1"

SizeOf(fast, isVercel) == IF fast \/ isVercel THEN SquareSize ELSE PortraitSize

TimeoutOfIgnoringVercel(fast, isVercel) == IF fast THEN FastTimeoutMs ELSE SlowTimeoutMs

TimeoutOf(fast, isVercel) == IF fast \/ isVercel THEN FastTimeoutMs ELSE SlowTimeoutMs

\* ------------------------------------------------------ form field reads
ImageMissingNever(f) == FALSE

\* line 156: !file
ImageMissing(f) == ~f.image

\* (form.get(name) as string) || dflt
OrDefault(v, dflt) == IF v = Null \/ v = "" THEN dflt ELSE v

\* (form.get(name) as string) === "true"
IsTrue(v) == v = "true"

\* (form.get("titleText") as string) || ""
TitleOf(f) == IF f.given THEN f.text ELSE <<>>

\* String.prototype.trim on a character sequence
IsSpace(c) == c = " "

RECURSIVE TrimStart(_)
TrimStart(s) ==
  IF s = <<>> THEN <<>>
  ELSE IF IsSpace(Head(s)) THEN TrimStart(Tail(s)) ELSE s

RECURSIVE TrimEnd(_)
TrimEnd(s) ==
  IF s = <<>> THEN <<>>
  ELSE IF IsSpace(s[Len(s)]) THEN TrimEnd(SubSeq(s, 1, Len(s) - 1)) ELSE s

Trim(s) == TrimEnd(TrimStart(s))

\* ------------------------------------------------------- prompt assembly
MayAddShapes == "You MAY add a few simple abstract shapes (cut-out style) in background or margins, subtle and secondary."
NoNewShapes == "Do NOT add new shapes; only recolor and tidy."
UseThisTitle == "If adding text, use this title: "
TitleLayout == " in a clean, minimal layout; keep it unobtrusive."
NoText == "Do NOT add any text."
Quote == "\""

\* lines 158-163
BaseGuidance(style, accent) ==
  << <<"Preserve ALL original shapes, proportions, and line strokes exactly.">>,
     <<"Do NOT change faces, figures, or geometry. No new characters or objects.">>,
     <<"Recolor using flat, paper-like blocks; clean negative space; wide margins.">>,
     <<"Use a ", style, " aesthetic with harmonious palette around accent ", accent, ".">> >>

ShapeDirectiveAlwaysForbid(allowShapes) == <<NoNewShapes>>

\* lines 164-168
ShapeDirective(allowShapes) ==
  IF allowShapes THEN <<MayAddShapes>> ELSE <<NoNewShapes>>

TextDirectiveUntrimmedQuote(aiText, titleText) ==
  IF aiText /\ Trim(titleText) # <<>>
  THEN <<UseThisTitle, Quote>> \o titleText \o <<Quote, TitleLayout>>
  ELSE <<NoText>>

\* lines 169-173
TextDirective(aiText, titleText) ==
  IF aiText /\ Trim(titleText) # <<>>
  THEN <<UseThisTitle, Quote>> \o Trim(titleText) \o <<Quote, TitleLayout>>
  ELSE <<NoText>>

\* lines 158-173
Guidance(style, accent, allowShapes, aiText, titleText) ==
  BaseGuidance(style, accent)
    \o <<ShapeDirective(allowShapes)>>
    \o <<TextDirective(aiText, titleText)>>

\* guidance.map((g, i) => `${i + 1}. ${g}`).join("\n")
RECURSIVE JoinNumbered(_, _)
JoinNumbered(g, i) ==
  IF i > Len(g) THEN <<>>
  ELSE <<ToString(i), ". ">> \o g[i]
         \o (IF i < Len(g) THEN <<"\n">> ELSE <<>>)
         \o JoinNumbered(g, i + 1)

\* lines 175-178
PromptOf(guidance) ==
  <<"Transform the input into a modern living-room poster while following these rules:", "\n">>
    \o JoinNumbered(guidance, 1)

\* String.prototype.includes on fragment sequences
Contains(s, sub) ==
  \E i \in 0..(Len(s) - Len(sub)) :
    \A j \in 1..Len(sub) : s[i + j] = sub[j]

\* ------------------------------------------------ external image API
\* HTTP statuses the image API may answer with; Response.ok is 200..299
Statuses == {200, 500}
IsOk(status) == status >= 200 /\ status <= 299

\* response bodies the image API may send
BodyHtml == "<html>Bad Gateway</html>"
BodyNull == "null"
BodyEmptyObject == "{}"
BodyEmptyData == "{\"data\":[]}"
BodyNoB64 == "{\"data\":[{}]}"
BodyEmptyB64 == "{\"data\":[{\"b64_json\":\"\"}]}"
BodyImageA == "{\"data\":[{\"b64_json\":\"QQ==\"}]}"
BodyImageAB == "{\"data\":[{\"b64_json\":\"QUI=\"}]}"

Bodies == {BodyHtml, BodyNull, BodyEmptyObject, BodyEmptyData, BodyNoB64,
           BodyEmptyB64, BodyImageA, BodyImageAB}

\* readable = FALSE: the body stream fails while it is read
OpenAIResponses ==
  [status : {200}, body : Bodies, readable : {TRUE}]
    \cup [status : Statuses, body : {BodyHtml}, readable : BOOLEAN]

NoResp == [status |-> 0, body |-> "", readable |-> FALSE]

\* JSON values
JUndefined == [kind |-> "undefined"]
JNull == [kind |-> "null"]
JStr(s) == [kind |-> "string", str |-> s]
JArr(items) == [kind |-> "array", items |-> items]
JObj(fields) == [kind |-> "object", fields |-> fields]
EmptyFields == [n \in {} |-> JNull]

\* Response.json(): parses the body text, throws a SyntaxError otherwise
IsJson(body) == body \in Bodies \ {BodyHtml}

JsonParse(body) ==
  CASE body = BodyNull -> JNull
    [] body = BodyEmptyObject -> JObj(EmptyFields)
    [] body = BodyEmptyData -> JObj([data |-> JArr(<<>>)])
    [] body = BodyNoB64 -> JObj([data |-> JArr(<<JObj(EmptyFields)>>)])
    [] body = BodyEmptyB64 -> JObj([data |-> JArr(<<JObj([b64_json |-> JStr("")])>>)])
    [] body = BodyImageA -> JObj([data |-> JArr(<<JObj([b64_json |-> JStr("QQ==")])>>)])
    [] body = BodyImageAB -> JObj([data |-> JArr(<<JObj([b64_json |-> JStr("QUI=")])>>)])

\* v?.name
Member(v, name) ==
  IF v.kind = "object" /\ name \in DOMAIN v.fields THEN v.fields[name] ELSE JUndefined

\* v?.[0]
First(v) ==
  IF v.kind = "array" /\ Len(v.items) > 0 THEN v.items[1] ELSE JUndefined

\* line 203: json?.data?.[0]?.b64_json
B64Of(json) == Member(First(Member(json, "data")), "b64_json")

\* line 204: !b64
Falsy(v) == v.kind \in {"undefined", "null"} \/ (v.kind = "string" /\ v.str = "")

\* lines 125-128
base64ToUint8Array(b64) ==
  CASE b64 = "QQ==" -> <<65>>
    [] b64 = "QUI=" -> <<65, 66>>
    [] OTHER -> <<>>

\* ------------------------------------------------------- thrown errors
AbortError == [name |-> "AbortError", message |-> "This operation was aborted"]
NetworkError == [name |-> "TypeError", message |-> "fetch failed"]
FormDataError == [name |-> "TypeError", message |-> "Failed to parse body as FormData."]
BodyReadError == [name |-> "TypeError", message |-> "terminated"]
JsonSyntaxError == [name |-> "SyntaxError", message |-> "Unexpected token < in JSON at position 0"]
StorageThrown == [name |-> "Error", message |-> "storage client failure"]
\* line 188: FormData.append with a filename and a value that is not a Blob
AppendTypeError == [name |-> "TypeError",
                    message |-> "Failed to execute 'append' on 'FormData': parameter 2 is not of type 'Blob'."]

TimedOutMessage == "Timed out. Try again (image was likely too large/slow)."

CatchMessageGeneric(err) == <<err.message>>

\* lines 223-228
CatchMessage(err) ==
  IF err.name = "AbortError" THEN <<TimedOutMessage>> ELSE <<err.message>>

\* ------------------------------------------------------------ storage
\* values of randomUUID()
UUIDs == {"1b4e28ba-2fa1-41d2-883f-0016d3cca427", "6fa459ea-ee8a-4ca4-894e-db77e160355e"}

\* line 208: `posters/${randomUUID()}.png`
KeyOf(uuid) == <<"posters/", uuid, ".png">>

\* outcomes of storage.from(bucket).upload(...)
UploadOk == [kind |-> "ok", message |-> ""]
UploadFailed == [kind |-> "error", message |-> "Bucket not found"]
UploadThrew == [kind |-> "throw", message |-> StorageThrown.message]
UploadResults == {UploadOk, UploadFailed, UploadThrew}
NoUpload == [kind |-> "none", message |-> ""]

UploadErroredNever(res) == FALSE

\* line 213: if (uploadError)
UploadErrored(res) == res.kind = "error"

\* pub?.publicUrl of getPublicUrl(key), "" when the client yields none
PublicUrlOf(k) == <<"https://project.supabase.co/storage/v1/object/public/kids-posters/", k>>
NoUrl == <<>>

\* ---------------------------------------------------------- responses
\* NextResponse.json(body, { status }), status 200 by default
Json(status, body) == [status |-> status, body |-> body]
ErrorBody(msg) == [error |-> msg]
PosterBody(url) == [posterUrl |-> url]
NoResponse == [status |-> 0, body |-> EmptyFields]

\* ==================================================== presentation layer
\* components/KidsPosterMVP.tsx: the values the component handles

\* bound: downscalings that may be pending at the same time
MaxPending == 2

\* line 139: downscaleImage(f, 1024, 0.8)
MaxSide == 1024

\* a File: its name (base and extension), its MIME type, the longer side of
\* the picture in pixels and its size in bytes
DrawingA == [name |-> <<"a", ".png">>, type |-> "image/png", side |-> 2048, size |-> 3000000]
DrawingB == [name |-> <<"b", ".jpg">>, type |-> "image/jpeg", side |-> 800, size |-> 200000]
NotesT == [name |-> <<"notes", ".txt">>, type |-> "text/plain", side |-> 0, size |-> 1000]
Files == {DrawingA, DrawingB, NotesT}
\* useState<File | null>(null)
NoFile == [name |-> <<>>, type |-> "", side |-> 0, size |-> 0]

\* line 131: f.type?.startsWith("image/")
IsImage(f) == f.type \in {"image/png", "image/jpeg"}

\* lines 25-40: the picture redrawn with its longer side at maxSide and
\* re-encoded as JPEG; the name keeps its base and gets the extension .jpg
Redrawn(f) ==
  [name |-> <<f.name[1], ".jpg">>, type |-> "image/jpeg",
   side |-> MaxSide, size |-> f.size \div 10]

\* lines 21-40: downscaleImage once the picture has loaded; canvasOk is
\* false when no 2d context or no blob is obtained
Downscale(f, canvasOk) ==
  IF f.side <= MaxSide THEN f
  ELSE IF ~canvasOk THEN f
  ELSE Redrawn(f)

\* Math.round(size / 1024)
RoundKB(size) == (size + 512) \div 1024

\* the texts typed into the title input
TypedTitles == {<<>>, <<" ">>, <<"a">>}

\* useState<string>(""): no poster is displayed
NoPoster == [url |-> <<>>, from |-> NoFile, title |-> <<>>]

\* the poster the server publishes for the image sent to it; `from` records
\* the image it was made of
PosterFor(sent, uuid) ==
  [url |-> PublicUrlOf(KeyOf(uuid)), from |-> sent, title |-> <<>>]

\* lines 47-76: overlayTitle; the object URL of the poster with the title band
Overlaid(poster, title) ==
  [url |-> <<"blob:">> \o poster.url, from |-> poster.from, title |-> Trim(title)]

\* the randomUUID() of the poster's key
PosterUUID == "1b4e28ba-2fa1-41d2-883f-0016d3cca427"

\* what fetch("/api/generate") yields: the handler's JSON responses, a
\* success without posterUrl, and a gateway error page that is not JSON
HttpResponse(r, isJson) == [status |-> r.status, body |-> r.body, json |-> isJson]

ServerResponses(sent) ==
  {HttpResponse(Json(200, PosterBody(PosterFor(sent, PosterUUID))), TRUE),
   HttpResponse(Json(200, EmptyFields), TRUE),
   HttpResponse(Json(500, ErrorBody(<<TimedOutMessage>>)), TRUE),
   HttpResponse(Json(502, ErrorBody(<<"OpenAI returned no image">>)), TRUE),
   HttpResponse(Json(504, EmptyFields), FALSE)}

NoHttpResponse == HttpResponse(NoResponse, FALSE)

\* lines 192-193: let data = {}; try { data = await res.json() } catch {}
ParsedBody(res) == IF res.json THEN res.body ELSE EmptyFields

\* line 195: parsed?.error || `Server error ${res.status}`
ErrorTextOf(res) ==
  LET parsed == ParsedBody(res)
  IN IF "error" \in DOMAIN parsed /\ parsed.error # <<>>
     THEN parsed.error
     ELSE <<"Server error ", ToString(res.status)>>

\* line 209: "Generation failed: " + msg
FailureMessage(text) == <<"Generation failed: ">> \o text

\* the locals of the handleGenerate invocation: where it is suspended
\* (fetch, json, overlay) or how it ended (done, failed), and while it is
\* suspended the values it captured when it was started, the response and
\* the poster it has obtained
NoGen == [pc |-> "none", file |-> NoFile, title |-> <<>>, overlay |-> FALSE,
          res |-> NoHttpResponse, poster |-> NoPoster]

\* ================================================================ state
VARIABLES
  env,          \* process environment and the module-level constants read from it (lines 120-123, 132, 141)
  pc,           \* where the handler is: idle, suspended at formData, fetch, body or upload, or responded
  req,          \* the incoming Request: its fast query parameter and its body
  formParsed,   \* req.formData() has fulfilled
  form,         \* the parsed form
  size,         \* const size (line 145)
  timeoutMs,    \* const timeoutMs (line 146)
  openaiReq,    \* the fields appended to the outgoing FormData (lines 186-193)
  timerArmed,   \* the timer `kill` is pending
  aborted,      \* controller.signal.aborted
  elapsed,      \* age in ms of the timer `kill`; 0 once it is cleared unfired
  openaiResp,   \* const openaiResp (line 183)
  thrown,       \* the error the catch clause received
  key,          \* const key (line 208)
  bytes,        \* const bytes (line 206)
  uploadResult, \* outcome of upload (line 209)
  pubUrl,       \* const posterUrl (line 218)
  calls,        \* external operations started by this invocation
  response      \* the response returned by this invocation

VARIABLES
  origFile,         \* useState: the file selected (line 79)
  sendFile,         \* useState: the file to send (line 80)
  posterUrl,        \* useState: the poster displayed (line 81)
  titleText,        \* useState: the title typed (line 87)
  overlayCleanText, \* useState: overlay the title locally (line 89)
  loading,          \* useState: a generation is in flight (line 96)
  message,          \* useState: the status line (line 97)
  pending,          \* the downscalings in flight: file -> number of pickFile calls awaiting it
  gen,              \* the handleGenerate invocation in flight, or the last one
  posterBefore      \* history: posterUrl when the last handleGenerate was started

clientVars == <<origFile, sendFile, posterUrl, titleText, overlayCleanText,
                loading, message, pending, gen, posterBefore>>

reqVars == <<req, formParsed, form, size, timeoutMs, openaiReq>>
timerVars == <<timerArmed, aborted, elapsed>>
storeVars == <<key, bytes, uploadResult, pubUrl>>
vars == <<env, pc, req, formParsed, form, size, timeoutMs,
          openaiReq, timerArmed, aborted, elapsed, openaiResp, thrown, key,
          bytes, uploadResult, pubUrl, calls, response,
          origFile, sendFile, posterUrl, titleText, overlayCleanText,
          loading, message, pending, gen, posterBefore>>
serverVars == <<env, pc, reqVars, timerVars, openaiResp, thrown, storeVars,
                calls, response>>

NoForm == [image |-> FALSE, blob |-> FALSE, style |-> Null, paletteAccent |-> Null,
           allowShapes |-> Null, aiText |-> Null,
           titleText |-> [given |-> FALSE, text |-> <<>>]]
\* a body that is not multipart form data carries no form
Requests ==
  [fast : FastParams, parseable : {TRUE}, form : Forms]
    \cup [fast : FastParams, parseable : {FALSE}, form : {NoForm}]
NoRequest == [fast |-> Null, parseable |-> FALSE, form |-> NoForm]
NoReq == [model |-> "", prompt |-> <<>>, size |-> ""]
NoError == [name |-> "", message |-> ""]
NoKey == <<>>
NoCalls == [formData |-> 0, fetch |-> 0, upload |-> 0, getPublicUrl |-> 0]

\* lines 79-97: the initial values of the component's state
BrowserInit ==
  /\ origFile = NoFile
  /\ sendFile = NoFile
  /\ posterUrl = NoPoster
  /\ titleText = <<>>
  /\ overlayCleanText = TRUE
  /\ loading = FALSE
  /\ message = <<>>
  /\ pending = [f \in Files |-> 0]
  /\ gen = NoGen
  /\ posterBefore = NoPoster

\* no invocation of the handler is in progress
HandlerIdle ==
  /\ pc = "idle"
  /\ req = NoRequest
  /\ formParsed = FALSE
  /\ form = NoForm
  /\ size = ""
  /\ timeoutMs = 0
  /\ openaiReq = NoReq
  /\ timerArmed = FALSE
  /\ aborted = FALSE
  /\ elapsed = 0
  /\ openaiResp = NoResp
  /\ thrown = NoError
  /\ key = NoKey
  /\ bytes = <<>>
  /\ uploadResult = NoUpload
  /\ pubUrl = NoUrl
  /\ calls = NoCalls
  /\ response = NoResponse

Init ==
  /\ env \in Envs
  /\ HandlerIdle
  /\ BrowserInit

\* return NextResponse.json(...)
Respond(r) ==
  /\ response' = r
  /\ pc' = "responded"

\* catch (err) { ... } (lines 222-230)
Catch(err) ==
  /\ thrown' = err
  /\ Respond(Json(500, ErrorBody(CatchMessage(err))))

\* lines 130-148: a request arrives; configuration checks, profile
\* selection, then await req.formData()
PostBegin(r) ==
  /\ pc = "idle"
  /\ req' = r
  /\ IF MissingOpenAIKey(env)
     THEN /\ Respond(Json(500, ErrorBody(<<"Missing OPENAI_API_KEY in .env">>)))
          /\ size' = "" /\ timeoutMs' = 0 /\ calls' = NoCalls
     ELSE IF MissingSupabase(env)
     THEN /\ Respond(Json(500, ErrorBody(<<"Missing Supabase env vars">>)))
          /\ size' = "" /\ timeoutMs' = 0 /\ calls' = NoCalls
     ELSE /\ size' = SizeOf(FastOf(r.fast), env.VERCEL)
          /\ timeoutMs' = TimeoutOf(FastOf(r.fast), env.VERCEL)
          /\ calls' = [NoCalls EXCEPT !.formData = 1]
          /\ pc' = "formData"
          /\ response' = NoResponse
  /\ UNCHANGED <<env, formParsed, form, openaiReq, timerVars,
                 openaiResp, thrown, storeVars>>
  /\ UNCHANGED clientVars

\* lines 148-195: req.formData() settles; field reads, image check, prompt
\* assembly, the timer is armed, the outgoing form is built and the fetch
\* is started; building the form throws when the image is not a Blob
FormDataSettled ==
  /\ pc = "formData"
  /\ IF ~req.parseable
     THEN /\ Catch(FormDataError)
          /\ UNCHANGED <<formParsed, form, openaiReq, timerArmed, calls>>
     ELSE /\ formParsed' = TRUE
          /\ form' = req.form
          /\ IF ImageMissing(req.form)
             THEN /\ Respond(Json(400, ErrorBody(<<"No image uploaded">>)))
                  /\ UNCHANGED <<openaiReq, timerArmed, calls, thrown>>
             ELSE IF ~req.form.blob
             THEN /\ timerArmed' = TRUE
                  /\ Catch(AppendTypeError)
                  /\ UNCHANGED <<openaiReq, calls>>
             ELSE /\ openaiReq' =
                       [model |-> "gpt-image-1",
                        prompt |-> PromptOf(Guidance(OrDefault(req.form.style, DefaultStyle),
                                                     OrDefault(req.form.paletteAccent, DefaultAccent),
                                                     IsTrue(req.form.allowShapes),
                                                     IsTrue(req.form.aiText),
                                                     TitleOf(req.form.titleText))),
                        size |-> size]
                  /\ timerArmed' = TRUE
                  /\ calls' = [calls EXCEPT !.fetch = @ + 1]
                  /\ pc' = "fetch"
                  /\ UNCHANGED <<response, thrown>>
  /\ UNCHANGED <<env, req, size, timeoutMs, aborted, elapsed,
                 openaiResp, key, bytes, uploadResult, pubUrl>>
  /\ UNCHANGED clientVars

\* time passes, up to the next deadline, while the timer is pending
Tick ==
  /\ timerArmed
  /\ elapsed < timeoutMs
  /\ \E t \in Deadlines :
       /\ t > elapsed
       /\ \A d \in Deadlines : d > elapsed => t <= d
       /\ elapsed' = t
  /\ UNCHANGED <<env, pc, reqVars, timerArmed, aborted,
                 openaiResp, thrown, storeVars, calls, response>>
  /\ UNCHANGED clientVars

\* line 181: the timer callback runs controller.abort()
TimerFires ==
  /\ timerArmed
  /\ elapsed >= timeoutMs
  /\ aborted' = TRUE
  /\ timerArmed' = FALSE
  /\ UNCHANGED <<env, pc, reqVars, elapsed,
                 openaiResp, thrown, storeVars, calls, response>>
  /\ UNCHANGED clientVars

\* lines 183-195: the fetch fulfils with the response headers;
\* finally clears the timer
FetchFulfilled(r) ==
  /\ pc = "fetch"
  /\ ~aborted
  /\ openaiResp' = r
  /\ timerArmed' = FALSE
  /\ elapsed' = 0
  /\ pc' = "body"
  /\ UNCHANGED <<env, reqVars, aborted,
                 thrown, storeVars, calls, response>>
  /\ UNCHANGED clientVars

FetchRejectedRetrying ==
  /\ pc = "fetch"
  /\ IF ~aborted /\ calls.fetch < 2
     THEN /\ calls' = [calls EXCEPT !.fetch = @ + 1]
          /\ UNCHANGED <<timerArmed, elapsed, thrown, response, pc>>
     ELSE /\ timerArmed' = FALSE
          /\ elapsed' = IF aborted THEN elapsed ELSE 0
          /\ Catch(IF aborted THEN AbortError ELSE NetworkError)
          /\ UNCHANGED calls
  /\ UNCHANGED <<env, reqVars, aborted, openaiResp, storeVars>>
  /\ UNCHANGED clientVars

\* lines 183-195, 222-230: the fetch rejects (aborted by the signal, or a
\* transport failure); finally clears the timer, the catch clause responds
FetchRejected ==
  /\ pc = "fetch"
  /\ timerArmed' = FALSE
  /\ elapsed' = IF aborted THEN elapsed ELSE 0
  /\ Catch(IF aborted THEN AbortError ELSE NetworkError)
  /\ UNCHANGED <<env, reqVars, aborted,
                 openaiResp, storeVars, calls>>
  /\ UNCHANGED clientVars

\* lines 197-212: the body is read; on a usable image the upload is started
BodySettled ==
  /\ pc = "body"
  /\ IF ~openaiResp.readable
     THEN /\ Catch(BodyReadError)
          /\ UNCHANGED <<key, bytes, calls>>
     ELSE IF ~IsOk(openaiResp.status)
     THEN /\ Respond(Json(502, ErrorBody(<<"OpenAI error ", ToString(openaiResp.status),
                                           ": ", openaiResp.body>>)))
          /\ UNCHANGED <<key, bytes, calls, thrown>>
     ELSE IF ~IsJson(openaiResp.body)
     THEN /\ Catch(JsonSyntaxError)
          /\ UNCHANGED <<key, bytes, calls>>
     ELSE LET b64 == B64Of(JsonParse(openaiResp.body))
          IN IF Falsy(b64)
             THEN /\ Respond(Json(502, ErrorBody(<<"OpenAI returned no image">>)))
                  /\ UNCHANGED <<key, bytes, calls, thrown>>
             ELSE /\ bytes' = base64ToUint8Array(b64.str)
                  /\ \E u \in UUIDs : key' = KeyOf(u)
                  /\ calls' = [calls EXCEPT !.upload = @ + 1]
                  /\ pc' = "upload"
                  /\ UNCHANGED <<response, thrown>>
  /\ UNCHANGED <<env, reqVars, timerVars, openaiResp,
                 uploadResult, pubUrl>>
  /\ UNCHANGED clientVars

\* lines 209-221: the upload settles; public URL lookup and final response
UploadSettled(res, url) ==
  /\ pc = "upload"
  /\ uploadResult' = res
  /\ IF res.kind = "throw"
     THEN /\ Catch(StorageThrown)
          /\ UNCHANGED <<pubUrl, calls>>
     ELSE IF UploadErrored(res)
     THEN /\ Respond(Json(500, ErrorBody(<<"Supabase upload failed: ", res.message>>)))
          /\ UNCHANGED <<pubUrl, calls, thrown>>
     ELSE /\ calls' = [calls EXCEPT !.getPublicUrl = @ + 1]
          /\ pubUrl' = url
          /\ IF url = NoUrl
             THEN Respond(Json(500, ErrorBody(<<"Could not get public URL from Supabase">>)))
             ELSE Respond(Json(200, PosterBody(url)))
          /\ UNCHANGED thrown
  /\ UNCHANGED <<env, reqVars, timerVars, openaiResp, key, bytes>>
  /\ UNCHANGED clientVars

\* the response has been handed to the caller and no timer of the
\* invocation is pending: the invocation is over and its locals are gone;
\* the process waits for the next request
PostReturn ==
  /\ pc = "responded"
  /\ ~timerArmed
  /\ pc' = "idle"
  /\ req' = NoRequest
  /\ formParsed' = FALSE
  /\ form' = NoForm
  /\ size' = ""
  /\ timeoutMs' = 0
  /\ openaiReq' = NoReq
  /\ timerArmed' = FALSE
  /\ aborted' = FALSE
  /\ elapsed' = 0
  /\ openaiResp' = NoResp
  /\ thrown' = NoError
  /\ key' = NoKey
  /\ bytes' = <<>>
  /\ uploadResult' = NoUpload
  /\ pubUrl' = NoUrl
  /\ calls' = NoCalls
  /\ response' = NoResponse
  /\ UNCHANGED env
  /\ UNCHANGED clientVars

\* ================================================ presentation layer steps
\* components/KidsPosterMVP.tsx

\* number of downscalings in flight
RECURSIVE SumOver(_, _)
SumOver(cnt, S) ==
  IF S = {} THEN 0
  ELSE LET f == CHOOSE x \in S : TRUE IN cnt[f] + SumOver(cnt, S \ {f})
PendingCount == SumOver(pending, Files)

\* lines 129-138: pickFile up to its await; a file that is not an image only
\* changes the message
PickFile(f) ==
  /\ f \in Files
  /\ IF ~IsImage(f)
     THEN /\ message' = <<"Please choose a PNG or JPG image.">>
          /\ UNCHANGED <<origFile, sendFile, posterUrl, pending>>
     ELSE /\ PendingCount < MaxPending
          /\ posterUrl' = NoPoster
          /\ message' = <<"Preparing image...">>
          /\ origFile' = f
          /\ pending' = [pending EXCEPT ![f] = @ + 1]
          /\ UNCHANGED sendFile
  /\ UNCHANGED <<titleText, overlayCleanText, loading, gen, posterBefore>>
  /\ UNCHANGED serverVars

\* lines 139-147: downscaleImage(f, 1024, 0.8) settles for one of the pending
\* pickFile calls; outcome is "loaded", "noCanvas" (no 2d context or no blob)
\* or "rejected" (img.onerror)
DownscaleSettled(f, outcome) ==
  /\ pending[f] > 0
  /\ pending' = [pending EXCEPT ![f] = @ - 1]
  /\ IF outcome = "rejected"
     THEN /\ sendFile' = f
          /\ message' = <<"Selected: ", f.name[1], f.name[2]>>
     ELSE LET downsized == Downscale(f, outcome = "loaded")
          IN /\ sendFile' = downsized
             /\ message' = <<"Selected: ", f.name[1], f.name[2], " -> sending ",
                             ToString(RoundKB(downsized.size)), " KB">>
  /\ UNCHANGED <<origFile, posterUrl, titleText, overlayCleanText, loading,
                 gen, posterBefore>>
  /\ UNCHANGED serverVars

\* line 360: onChange of the title input
SetTitle(t) ==
  /\ t # titleText
  /\ titleText' = t
  /\ UNCHANGED <<origFile, sendFile, posterUrl, overlayCleanText, loading,
                 message, pending, gen, posterBefore>>
  /\ UNCHANGED serverVars

\* line 352: onChange of the "overlay clean text" checkbox
ToggleOverlay ==
  /\ overlayCleanText' = ~overlayCleanText
  /\ UNCHANGED <<origFile, sendFile, posterUrl, titleText, loading, message,
                 pending, gen, posterBefore>>
  /\ UNCHANGED serverVars

GenerateStartKeepingPoster ==
  /\ sendFile # NoFile
  /\ ~loading
  /\ loading' = TRUE
  /\ message' = <<"Generating...">>
  /\ gen' = [NoGen EXCEPT !.pc = "fetch", !.file = sendFile,
                          !.title = titleText, !.overlay = overlayCleanText]
  /\ posterBefore' = posterUrl
  /\ UNCHANGED <<origFile, sendFile, posterUrl, titleText, overlayCleanText, pending>>
  /\ UNCHANGED serverVars

\* lines 169-189 with the button of lines 375-377 (disabled while there is
\* nothing to send or a generation is loading): handleGenerate up to
\* await fetch(...)
GenerateStart ==
  /\ sendFile # NoFile
  /\ ~loading
  /\ loading' = TRUE
  /\ posterUrl' = NoPoster
  /\ message' = <<"Generating...">>
  /\ gen' = [NoGen EXCEPT !.pc = "fetch", !.file = sendFile,
                          !.title = titleText, !.overlay = overlayCleanText]
  /\ posterBefore' = posterUrl
  /\ UNCHANGED <<origFile, sendFile, titleText, overlayCleanText, pending>>
  /\ UNCHANGED serverVars

\* lines 207-212: catch sets the message, finally clears loading
GenerateFailed(text) ==
  /\ message' = FailureMessage(text)
  /\ loading' = FALSE
  /\ gen' = [NoGen EXCEPT !.pc = "failed"]
  /\ UNCHANGED <<origFile, sendFile, posterUrl, titleText, overlayCleanText,
                 pending, posterBefore>>

\* lines 205-206 and 210-212: the poster is displayed, finally clears loading
GenerateDone(poster) ==
  /\ posterUrl' = poster
  /\ message' = <<"Done! Poster generated.">>
  /\ loading' = FALSE
  /\ gen' = [NoGen EXCEPT !.pc = "done"]
  /\ UNCHANGED <<origFile, sendFile, titleText, overlayCleanText, pending,
                 posterBefore>>

\* line 190: await fetch(url, ...) is fulfilled with a response
FetchSettled(res) ==
  /\ gen.pc = "fetch"
  /\ gen' = [gen EXCEPT !.pc = "json", !.res = res]
  /\ UNCHANGED <<origFile, sendFile, posterUrl, titleText, overlayCleanText,
                 loading, message, pending, posterBefore>>
  /\ UNCHANGED serverVars

\* line 190: await fetch(url, ...) is rejected (the network is down)
FetchFailed ==
  /\ gen.pc = "fetch"
  /\ GenerateFailed(<<"Failed to fetch">>)
  /\ UNCHANGED serverVars

\* lines 192-206: await res.json() settles; the checks on the response
JsonSettled ==
  /\ gen.pc = "json"
  /\ LET parsed == ParsedBody(gen.res)
     IN IF gen.res.status # 200
        THEN GenerateFailed(ErrorTextOf(gen.res))
        ELSE IF "posterUrl" \notin DOMAIN parsed
        THEN GenerateFailed(<<"No posterUrl in response">>)
        ELSE IF gen.overlay /\ Trim(gen.title) # <<>>
        THEN /\ gen' = [gen EXCEPT !.pc = "overlay", !.poster = parsed.posterUrl]
             /\ UNCHANGED <<origFile, sendFile, posterUrl, titleText,
                            overlayCleanText, loading, message, pending,
                            posterBefore>>
        ELSE GenerateDone(parsed.posterUrl)
  /\ UNCHANGED serverVars

\* lines 201-203 with overlayTitle (lines 47-76): the overlay settles;
\* outcome is "drawn", "noBlob" (toBlob gave null) or "rejected"
\* (img.decode() rejected)
OverlaySettled(outcome) ==
  /\ gen.pc = "overlay"
  /\ IF outcome = "rejected"
     THEN GenerateFailed(<<"The source image cannot be decoded.">>)
     ELSE IF outcome = "noBlob"
     THEN GenerateDone(gen.poster)
     ELSE GenerateDone(Overlaid(gen.poster, gen.title))
  /\ UNCHANGED serverVars

\* the steps of the route handler; the component's state is another process's
Next ==
  \/ \E r \in Requests : PostBegin(r)
  \/ PostReturn
  \/ FormDataSettled
  \/ Tick
  \/ TimerFires
  \/ \E r \in OpenAIResponses : FetchFulfilled(r)
  \/ FetchRejected
  \/ BodySettled
  \/ \E res \in UploadResults, url \in {PublicUrlOf(key), NoUrl} :
       UploadSettled(res, url)

Spec == Init /\ [][Next]_vars

\* the deployment the page talks to: every variable of lines 120-122 is set
DeployedEnv == [OPENAI_API_KEY |-> TRUE, supabaseUrl |-> TRUE,
                supabaseServiceRoleKey |-> TRUE, VERCEL |-> TRUE]

PageLoaded ==
  /\ env = DeployedEnv
  /\ HandlerIdle
  /\ BrowserInit

\* the events of the page: the user's input and the settling of what the
\* component awaits
BrowserNext ==
  \/ \E f \in Files : PickFile(f)
  \/ \E f \in Files, outcome \in {"loaded", "noCanvas", "rejected"} :
       DownscaleSettled(f, outcome)
  \/ \E t \in TypedTitles : SetTitle(t)
  \/ ToggleOverlay
  \/ GenerateStart
  \/ \E res \in ServerResponses(gen.file) : FetchSettled(res)
  \/ FetchFailed
  \/ JsonSettled
  \/ \E outcome \in {"drawn", "noBlob", "rejected"} : OverlaySettled(outcome)

BrowserSpec == PageLoaded /\ [][BrowserNext]_vars

\* ============================================================ properties
Responded == pc = "responded"
HasError(r) == "error" \in DOMAIN r.body
HasPoster(r) == "posterUrl" \in DOMAIN r.body
\* a required configuration value is absent from the environment
ConfigMissing ==
  ~env.OPENAI_API_KEY \/ ~env.supabaseUrl \/ ~env.supabaseServiceRoleKey
InFlight == pc # "idle"
\* the prompt has been assembled for the current request
Assembled == openaiReq # NoReq
\* the fetch of the current request has fulfilled
GotResponse == openaiResp # NoResp
\* d is one of the numbered rules of prompt p
HasRule(p, d) == \E i \in 1..6 : Contains(p, <<"\n", ToString(i), ". ">> \o d)
\* the usable base64 image of a response of the image API, "" if there is none
ImageOf(r) ==
  IF r.readable /\ IsOk(r.status) /\ IsJson(r.body) /\ ~Falsy(B64Of(JsonParse(r.body)))
  THEN B64Of(JsonParse(r.body)).str
  ELSE ""

\* C1 (as stated): every request whose form has no image field is answered
\* with 400 and a non-empty error message, whatever the configuration, and
\* starts neither the image API call nor the upload.
C1_AsStated ==
  (Responded /\ req.parseable /\ ~req.form.image) =>
    /\ response.status = 400
    /\ HasError(response) /\ response.body.error # <<>>
    /\ calls.fetch = 0 /\ calls.upload = 0

\* C1 (amended): a request whose form has no image field never starts the
\* image API call nor the upload; it is answered with an error: 400 "No image
\* uploaded" when the required configuration is present, 500 when it is not.
C1_NoImageRejected ==
  (InFlight /\ req.parseable /\ ~req.form.image) =>
    /\ calls.fetch = 0 /\ calls.upload = 0
    /\ Responded =>
         /\ HasError(response) /\ ~HasPoster(response)
         /\ response.body.error # <<>>
         /\ response.status = IF ConfigMissing THEN 500 ELSE 400

C1_Witness ==
  /\ Responded /\ formParsed /\ ~form.image
  /\ response.status = 400

\* C2: while a required configuration value is absent, a request is
\* answered with 500 before the form is parsed, and neither the image API
\* call nor the upload nor the public-URL lookup is started.
C2_ConfigRejected ==
  (InFlight /\ ConfigMissing) =>
    /\ Responded
    /\ response.status = 500 /\ HasError(response) /\ ~HasPoster(response)
    /\ ~formParsed
    /\ calls = NoCalls

C2_Witness ==
  /\ Responded /\ response.status = 500
  /\ env.OPENAI_API_KEY /\ env.supabaseUrl /\ ~env.supabaseServiceRoleKey
  /\ req.parseable /\ req.form.image

\* C3: a response carries posterUrl only if the image API answered with a
\* success status and a base64 image, those bytes were uploaded without
\* error under the key, and getPublicUrl yielded a non-empty URL for that
\* key; every other response carries error and no posterUrl.
PosterEarned ==
  /\ GotResponse /\ ImageOf(openaiResp) # ""
  /\ bytes = base64ToUint8Array(ImageOf(openaiResp))
  /\ calls.upload = 1 /\ uploadResult = UploadOk
  /\ pubUrl # NoUrl /\ pubUrl = PublicUrlOf(key)

C3_PosterOnlyIfStored ==
  Responded =>
    IF PosterEarned
    THEN /\ HasPoster(response) /\ ~HasError(response)
         /\ response.body.posterUrl = pubUrl
    ELSE HasError(response) /\ ~HasPoster(response)

C3_Witness ==
  /\ Responded /\ HasPoster(response)
  /\ bytes = <<65, 66>> /\ uploadResult = UploadOk

C3_WitnessUploadFailed ==
  /\ Responded /\ uploadResult = UploadFailed /\ HasError(response)

\* C4: when the image API call exceeds its timeout the call is aborted, and
\* the request ends with an error response whose message is exactly the
\* timeout message, not the message of a network error; no upload is made.
C4_TimeoutMessage ==
  /\ timerArmed => elapsed <= timeoutMs
  /\ aborted =>
       /\ elapsed >= timeoutMs
       /\ pc \in {"fetch", "responded"}
       /\ ~GotResponse
       /\ calls.upload = 0
       /\ (Responded /\ calls.fetch = 1) =>
            /\ HasError(response) /\ ~HasPoster(response)
            /\ response.body.error = <<TimedOutMessage>>
            /\ response.body.error # <<NetworkError.message>>

C4_Witness ==
  /\ Responded /\ aborted
  /\ timeoutMs = SlowTimeoutMs /\ elapsed = SlowTimeoutMs
  /\ thrown = AbortError

\* C5: when the image API answers with a success status but without a
\* decodable image payload (body not parseable, data missing or empty,
\* b64_json missing or empty) the response is 502 with the message that no
\* image was returned, and no upload is made.
C5_NoImageIs502 ==
  (Responded /\ GotResponse /\ openaiResp.readable
     /\ IsOk(openaiResp.status) /\ ImageOf(openaiResp) = "") =>
    /\ response.status = 502
    /\ HasError(response)
    /\ response.body.error = <<"OpenAI returned no image">>
    /\ calls.upload = 0

\* C6: every request ends with one JSON response whose status conveys the
\* failure class: 400 iff the image is missing; 502 iff the image API
\* returned a non-success status or an unusable payload; 500 iff the
\* configuration is missing, the upload failed, the public URL could not be
\* resolved or an unexpected internal error occurred; a success response
\* has posterUrl and no error.
FailureClass ==
  IF ConfigMissing THEN "configuration"
  ELSE IF ~req.parseable THEN "internal"
  ELSE IF ~req.form.image THEN "image"
  ELSE IF ~GotResponse THEN "internal"
  ELSE IF ImageOf(openaiResp) = "" THEN "upstream"
  ELSE IF uploadResult.kind = "error" THEN "storage"
  ELSE IF uploadResult.kind = "throw" THEN "internal"
  ELSE IF pubUrl = NoUrl THEN "url"
  ELSE "none"

C6_StatusConveysClass ==
  Responded =>
    /\ HasError(response) # HasPoster(response)
    /\ response.status = 400 <=> FailureClass = "image"
    /\ response.status = 502 <=> FailureClass = "upstream"
    /\ response.status = 500 <=>
         FailureClass \in {"configuration", "storage", "url", "internal"}
    /\ FailureClass = "none" =>
         /\ response.status = 200
         /\ HasPoster(response) /\ ~HasError(response)

\* C7: one profile is selected per request: with fast=1 or VERCEL set the
\* requested size is 1024x1024 and the timeout 9000 ms, otherwise the size
\* is 1024x1536 and the timeout 45000 ms; size and timeout never come from
\* different profiles, and they are the size sent and the deadline used.
C7_OneProfile ==
  (InFlight /\ ~ConfigMissing) =>
    /\ IF req.fast = "1" \/ env.VERCEL
       THEN size = "1024x1024" /\ timeoutMs = 9000
       ELSE size = "1024x1536" /\ timeoutMs = 45000
    /\ Assembled => openaiReq.size = size
    /\ aborted => elapsed = timeoutMs

C7_Witness ==
  /\ pc = "fetch" /\ env.VERCEL /\ req.fast = Null
  /\ openaiReq.size = "1024x1024" /\ timeoutMs = 9000

C7_WitnessSlow ==
  /\ Responded /\ aborted /\ ~env.VERCEL /\ req.fast = "0"
  /\ openaiReq.size = "1024x1536" /\ elapsed = 45000

\* C8: an assembled prompt has exactly one of the two shape rules: the
\* "MAY add a few simple abstract shapes" rule and not the "Do NOT add new
\* shapes" rule when allowShapes is "true", the converse for any other or
\* absent value.
C8_OneShapeDirective ==
  Assembled =>
    IF form.allowShapes = "true"
    THEN /\ HasRule(openaiReq.prompt, <<MayAddShapes>>)
         /\ ~Contains(openaiReq.prompt, <<NoNewShapes>>)
    ELSE /\ HasRule(openaiReq.prompt, <<NoNewShapes>>)
         /\ ~Contains(openaiReq.prompt, <<MayAddShapes>>)

C8_Witness ==
  /\ Assembled /\ form.allowShapes = "true"
  /\ HasRule(openaiReq.prompt, <<MayAddShapes>>)

C8_WitnessForbid ==
  /\ Assembled /\ form.allowShapes = Null
  /\ HasRule(openaiReq.prompt, <<NoNewShapes>>)

\* C9 (as stated): with aiText "true" and a non-empty titleText the prompt
\* contains the exact titleText in double quotes and not the "Do NOT add any
\* text" rule; otherwise it contains that rule and no title.
C9_AsStated ==
  Assembled =>
    IF form.aiText = "true" /\ TitleOf(form.titleText) # <<>>
    THEN /\ Contains(openaiReq.prompt, <<Quote>> \o TitleOf(form.titleText) \o <<Quote>>)
         /\ ~HasRule(openaiReq.prompt, <<NoText>>)
    ELSE /\ HasRule(openaiReq.prompt, <<NoText>>)
         /\ ~Contains(openaiReq.prompt, <<UseThisTitle>>)

\* C9 (amended): with aiText "true" and a titleText that is non-empty after
\* trimming, the prompt has the title rule with the trimmed titleText in
\* double quotes and not the "Do NOT add any text" rule; otherwise (aiText
\* anything else, or titleText absent, empty or only whitespace) it has the
\* "Do NOT add any text" rule and no title rule.
C9_TrimmedTitle ==
  Assembled =>
    IF form.aiText = "true" /\ Trim(TitleOf(form.titleText)) # <<>>
    THEN /\ HasRule(openaiReq.prompt,
                    <<UseThisTitle, Quote>> \o Trim(TitleOf(form.titleText)) \o <<Quote, TitleLayout>>)
         /\ ~HasRule(openaiReq.prompt, <<NoText>>)
    ELSE /\ HasRule(openaiReq.prompt, <<NoText>>)
         /\ ~Contains(openaiReq.prompt, <<UseThisTitle>>)

C9_Witness ==
  /\ Assembled /\ form.aiText = "true"
  /\ form.titleText.text = <<" ", "a">>
  /\ Contains(openaiReq.prompt, <<Quote, "a", Quote>>)

C9_WitnessBlank ==
  /\ Assembled /\ form.aiText = "true"
  /\ form.titleText.text = <<" ">>
  /\ HasRule(openaiReq.prompt, <<NoText>>)

\* C10: within one request the image API call is started at most once and
\* the upload at most once, whatever the outcome; a failed step is not
\* retried: once a step has failed the request is over.
StepFailed ==
  \/ thrown # NoError
  \/ GotResponse /\ ImageOf(openaiResp) = "" /\ pc # "body"
  \/ uploadResult.kind \in {"error", "throw"}

C10_SingleAttempt ==
  /\ calls.fetch <= 1
  /\ calls.upload <= 1
  /\ calls.upload = 1 => calls.fetch = 1
  /\ StepFailed => Responded

C10_Witness ==
  /\ Responded /\ thrown = NetworkError
  /\ calls.fetch = 1 /\ calls.upload = 0

C10_WitnessUpload ==
  /\ Responded /\ uploadResult = UploadFailed
  /\ calls.fetch = 1 /\ calls.upload = 1

\* C12: the abort can fire only while the handler awaits the image API
\* fetch: the timer is cleared as soon as that fetch settles, so no abort
\* occurs while the body is read, during the upload or the URL lookup, and
\* no timer remains armed after the request has responded.
C12_AbortOnlyDuringFetch ==
  /\ timerArmed => pc = "fetch"
  /\ aborted => (calls.fetch = 1 /\ ~GotResponse /\ pc \notin {"body", "upload"})
  /\ (Responded /\ aborted) => thrown = AbortError

\* ------------------------------------------------ presentation layer
\* the message shown after a generation failed (line 209)
IsFailureMessage(m) == Len(m) > 0 /\ m[1] = "Generation failed: "

\* the step in which a handleGenerate invocation ends in its catch clause
GenerationFails == loading /\ ~loading' /\ gen'.pc = "failed"

\* the response in hand is an error response carrying a non-empty `error`
ServerErrorInHand ==
  /\ gen.pc = "json"
  /\ gen.res.json
  /\ gen.res.status # 200
  /\ HasError(gen.res)
  /\ gen.res.body.error # <<>>

\* C11 as stated: after a failed generation posterUrl still equals the
\* value it had before that generation was started.
C11_AsStated ==
  (gen.pc = "failed" /\ IsFailureMessage(message) /\ posterBefore # NoPoster)
    => posterUrl = posterBefore

\* C11: a generation clears the displayed poster when it is started, and
\* when it fails the poster stays cleared (the earlier poster is not shown
\* again); the failing step itself changes only the message and the loading
\* flag: the selected file, the file to send and the inputs are left as they
\* were, and the message becomes "Generation failed: " followed by the
\* server's `error` string verbatim when the response carried one.
C11_FailureLeavesPosterCleared ==
  [][GenerationFails =>
       /\ posterUrl = NoPoster
       /\ posterUrl' = NoPoster
       /\ origFile' = origFile
       /\ sendFile' = sendFile
       /\ titleText' = titleText
       /\ overlayCleanText' = overlayCleanText
       /\ IsFailureMessage(message')
       /\ ServerErrorInHand =>
            message' = <<"Generation failed: ">> \o gen.res.body.error]_vars

\* a second generation has failed with the server's timeout error after an
\* earlier one had displayed a poster
C11_Witness ==
  /\ gen.pc = "failed"
  /\ posterBefore # NoPoster
  /\ posterUrl = NoPoster
  /\ origFile # NoFile
  /\ message = <<"Generation failed: ", TimedOutMessage>>

\* the forms in which downscaleImage can hand back a file
SendFormsOf(f) == {f} \cup {Downscale(f, canvasOk) : canvasOk \in BOOLEAN}

\* C13: under any interleaving of file selections and a generation, a
\* displayed poster was generated from the currently selected original
\* file, and once no downscaling is pending the file to send is the
\* downscaled form of the currently selected original: neither a poster nor
\* a send-file of an older selection is left behind.
C13_Consistent ==
  /\ posterUrl # NoPoster => posterUrl.from \in SendFormsOf(origFile)
  /\ (PendingCount = 0 /\ origFile # NoFile) => sendFile \in SendFormsOf(origFile)

====
